---- MODULE Spec2Model ----
(***************************************************************************)
(* The bounded upsert store of the Stock-Market-Dashboard jobs:            *)
(* MySQLDataConnector (src/mysql_api.py) against one MySQL table.          *)
(*                                                                         *)
(* A job run constructs a connector for a table that earlier runs may have *)
(* filled, calls insert_or_update once with the scraped DataFrame and ends.*)
(* The table outlives the run, so Init draws the table a run finds from    *)
(* every table the store can hold (no table yet, or any set of rows that   *)
(* respects the PRIMARY KEY the store declared).  KeyUnique and the        *)
(* actions below show that set closed under the store's operations.        *)
(*                                                                         *)
(* Further specifications start the same operations from other states: a   *)
(* connector constructed without primary_keys (SpecNoKey), a table of      *)
(* another shape than the DataFrame (SpecSchema), a connector that failed  *)
(* to connect (SpecOffline), a table that is read (SpecRead).  SpecJobs    *)
(* follows the statements of the two news scripts around the connector,    *)
(* SpecFetcher the loop of YahooFinanceDataFetcher.process_all_symbols.    *)
(***************************************************************************)
EXTENDS Integers, Sequences, FiniteSets, TLC

\* ------------------------------------------------------------- bounds
MaxBatch == 2          \* rows in one DataFrame handed to insert_or_update
MaxCap   == 1          \* largest max_row_key a connector is constructed with
MaxSymbols == 3        \* entries of symbols_yfinance in the configuration
MaxSide  == 2          \* rows and columns of a CSV, of a worksheet's old contents
MaxArticles == 11      \* news items Yahoo ever lists for a symbol
MaxText  == 4          \* characters of a scraped table cell

\* ------------------------------------------------------------- values
None == "None"                       \* Python's None (connection, sort_col)
NoInt == <<>>                        \* Python's None for max_row_key
Some(n) == <<n>>                     \* an int max_row_key

\* Python's None as the only element of self.primary_keys: the constructor
\* wraps a primary_keys argument that is no list, the default None included
NoKeys == <<None>>
\* a column the INSERT did not name: the column's default NULL, written as
\* the length no text has (a Summary is modelled by its length)
Null == -1
\* VARCHAR(255): the characters a column of a created table holds
VarcharLimit == 255

\* df.columns of the modelled DataFrame
Columns == <<"Symbol", "Timestamp", "Close">>
\* df.columns of a DataFrame that also carries a news Summary
WideColumns == <<"Symbol", "Timestamp", "Close", "Summary">>
ColumnSet(columns) == {columns[i] : i \in 1..Len(columns)}

Symbols    == {"A", "B"}
\* text cells: the day part of fixed-width timestamps '01', '02'
Timestamps == {<<0, 1>>, <<0, 2>>}
\* numeric cells of the DataFrame (Python ints)
Closes     == {9, 10}

\* one DataFrame row (df.itertuples); Symbol "B" is the neighbouring
\* partition and carries one Close value
DfRows ==
  {r \in [Symbol : Symbols, Timestamp : Timestamps, Close : Closes] :
     r.Symbol = "B" => r.Close = 9}

\* the DataFrames of n rows, order kept
RECURSIVE Frames(_)
Frames(n) ==
  IF n = 0 THEN {<<>>} ELSE {Append(f, r) : f \in Frames(n - 1), r \in DfRows}

\* the DataFrames a job passes: 0..MaxBatch rows
Batches == UNION {Frames(n) : n \in 0..MaxBatch}

\* a Summary text, by its number of characters: one that fits a column and
\* one that is a character too long
Summaries == {VarcharLimit, VarcharLimit + 1}
\* rows of a DataFrame with a Summary column
WideRows == [Symbol : {"A"}, Timestamp : Timestamps, Close : {9}, Summary : Summaries]
\* the one-row DataFrames with a Summary column
WideBatches == {<<r>> : r \in WideRows}

\* ------------------------------------------------------------- text
\* decimal text of a non-negative int: what the driver sends and the
\* VARCHAR(255) column stores for a numeric cell
RECURSIVE Digits(_)
Digits(n) == IF n < 10 THEN <<n>> ELSE Append(Digits(n \div 10), n % 10)

\* the row as text, column by column: what the driver sends for it
Stored(r) == [c \in DOMAIN r |-> IF c = "Close" THEN Digits(r[c]) ELSE r[c]]

\* a value of the row has more characters than a column holds (of the
\* modelled cells only a Summary can)
TooLong(row) == "Summary" \in DOMAIN row /\ row.Summary > VarcharLimit

\* the row with its values cut to the column length (sql_mode not strict)
Truncated(row) ==
  [c \in DOMAIN row |-> IF c = "Summary" /\ row[c] > VarcharLimit
                         THEN VarcharLimit ELSE row[c]]

\* the row as a table with the columns `cols` holds it: a column the INSERT
\* did not name gets its default
Fit(row, cols) == [c \in cols |-> IF c \in DOMAIN row THEN row[c] ELSE Null]

\* variant: the values compared as numbers
CastLess(a, b) ==
  \/ Len(a) < Len(b)
  \/ /\ Len(a) = Len(b)
     /\ \E i \in 1..Len(a) : a[i] < b[i] /\ \A j \in 1..(i - 1) : a[j] = b[j]

\* string comparison of two VARCHAR values (character by character)
RECURSIVE StrLess(_, _)
StrLess(a, b) ==
  IF Len(a) = 0 THEN Len(b) > 0
  ELSE IF Len(b) = 0 THEN FALSE
  ELSE IF a[1] # b[1] THEN a[1] < b[1]
  ELSE StrLess(Tail(a), Tail(b))

AllStored == {Stored(r) : r \in DfRows}

\* ------------------------------------------------------------- state
VARIABLES
  connection,    \* self.connection: "open", "closed" or None
  primary_keys,  \* self.primary_keys
  max_row_key,   \* self.max_row_key
  sort_col,      \* self.sort_col
  table_exists,  \* the table `table_name` exists in the database
  table_pk,      \* the PRIMARY KEY the table was created with
  table_cols,    \* the columns the table was created with
  sql_mode,      \* the server's sql_mode: "strict" (the default) or "loose"
  committed,     \* committed rows of the table
  session,       \* rows as this connection's open transaction sees them
  pc,            \* where the job run is
  last,          \* record of the last call (observation only)
  job            \* the job script around the connector: its position and prints

vars == <<connection, primary_keys, max_row_key, sort_col, table_exists,
          table_pk, table_cols, sql_mode, committed, session, pc, last, job>>

\* no job script is being followed
NoJob == [kind |-> "none"]

\* the tuple of a row's values in the columns `pks`
Key(row, pks) == [i \in 1..Len(pks) |-> row[pks[i]]]

InKey(col, pks) == \E i \in 1..Len(pks) : pks[i] = col

\* no two rows share the tuple `pks`
KeyUnique(rows, pks) ==
  Cardinality({Key(r, pks) : r \in rows}) = Cardinality(rows)

\* ------------------------------------------------------------- database
\* the database as one connection sees it
Db == [exists |-> table_exists, pk |-> table_pk, cols |-> table_cols,
       committed |-> committed, session |-> session]

\* self.connection.commit()
commit(d) == [d EXCEPT !.committed = d.session]

\* every column of PRIMARY KEY (...) is a column of the statement's table
KeyColumnsIn(columns, pks) == \A i \in 1..Len(pks) : pks[i] \in columns

\* variant: the `if self.connection is None: return` test left out
create_table_unchecked(d, columns) ==
  {[db |-> [d EXCEPT !.exists = TRUE,
                     !.pk = IF d.exists THEN d.pk ELSE primary_keys,
                     !.cols = IF d.exists THEN d.cols ELSE columns],
    stmts |-> <<"CREATE", "COMMIT">>]}

\* variant: DROP TABLE before CREATE TABLE
create_table_dropping(d, columns, pks) ==
  [exists |-> TRUE, pk |-> pks, cols |-> columns, committed |-> {}, session |-> {}]

\* variant: an existing table is altered to the columns and key of the
\* DataFrame
create_table_migrating(d, columns, pks) ==
  IF ~KeyColumnsIn(columns, pks) THEN d
  ELSE commit([d EXCEPT !.exists = TRUE, !.pk = pks,
                        !.cols = d.cols \cup columns,
                        !.session = {Fit(t, d.cols \cup columns) : t \in d.session}])

\* CREATE TABLE IF NOT EXISTS (`col` VARCHAR(255) for col in df.columns,
\* PRIMARY KEY (primary_keys)); commit.  A table that exists is left as it
\* is; a key column that is no column of the DataFrame makes the server
\* reject the creation (except Error)
create_table_if_not_exists(d, columns, pks) ==
  IF d.exists THEN commit(d)
  ELSE IF KeyColumnsIn(columns, pks)
       THEN commit([d EXCEPT !.exists = TRUE, !.pk = pks, !.cols = columns])
       ELSE d

\* the statements create_table_if_not_exists issues: for a table that
\* exists the server may answer before or after it looks at the key columns
create_log(d, columns, pks) ==
  IF KeyColumnsIn(columns, pks) THEN {<<"CREATE", "COMMIT">>}
  ELSE IF d.exists THEN {<<"CREATE", "COMMIT">>, <<"CREATE raised">>}
  ELSE {<<"CREATE raised">>}

\* variant: the test `col not in self.primary_keys` turned round
update_clause_keys(columns, pks) == {c \in columns : InKey(c, pks)}

\* variant: `Symbol` left out of the update clause as if it were a key column
update_clause_no_symbol(columns, pks) ==
  {c \in columns : ~InKey(c, pks) /\ c # "Symbol"}

\* the columns of `col`=VALUES(`col`): df.columns not in self.primary_keys
update_clause(columns, pks) == {c \in columns : ~InKey(c, pks)}

\* variant: the INSERT without conflict resolution on the key
plain_insert(view, row, tpk, pks) == view \cup {row}

\* variant: on a duplicate key the update writes the value of another column
update_shifted(view, row, tpk, pks) ==
  LET hit == {t \in view : Key(t, tpk) = Key(row, tpk)}
  IN  IF hit = {} THEN view \cup {row}
      ELSE (view \ hit) \cup
           {[c \in DOMAIN t |-> IF c = "Close" THEN row.Timestamp ELSE t[c]]
              : t \in hit}

\* one row of INSERT ... ON DUPLICATE KEY UPDATE against a table whose
\* PRIMARY KEY is tpk
on_duplicate_key_update(view, row, tpk, pks) ==
  LET k == Key(row, tpk)
      hit == {t \in view : Key(t, tpk) = k}
  IN  IF hit = {} THEN view \cup {row}
      ELSE (view \ hit) \cup
           {[c \in DOMAIN t |->
               IF c \in update_clause(DOMAIN row, pks) THEN row[c] ELSE t[c]]
              : t \in hit}

\* variant: the rows applied last to first
RECURSIVE insert_rows_reversed(_, _, _, _)
insert_rows_reversed(view, rows, tpk, pks) ==
  IF Len(rows) = 0 THEN view
  ELSE on_duplicate_key_update(insert_rows_reversed(view, Tail(rows), tpk, pks),
                               Head(rows), tpk, pks)

\* the rows of the multi-row INSERT, applied in the order of the DataFrame
RECURSIVE insert_rows(_, _, _, _)
insert_rows(view, rows, tpk, pks) ==
  IF Len(rows) = 0 THEN view
  ELSE insert_rows(on_duplicate_key_update(view, Head(rows), tpk, pks),
                   Tail(rows), tpk, pks)

\* variant: the rows sent one statement each, so the rows before the rejected
\* (last) one stay in the open transaction
executemany_row_by_row(view, df, tpk, pks, rejected) ==
  LET rows == [i \in 1..Len(df) |-> Stored(df[i])]
  IN  IF rejected THEN insert_rows(view, SubSeq(rows, 1, Len(rows) - 1), tpk, pks)
      ELSE insert_rows(view, rows, tpk, pks)

\* cursor.executemany(insert_query, df.itertuples()): the driver sends the
\* batch as one multi-row INSERT statement; a statement the server or the
\* driver rejects raises Error and InnoDB rolls the whole statement back
executemany(view, df, tpk, pks, rejected) ==
  IF rejected THEN view
  ELSE insert_rows(view,
                   [i \in 1..Len(df) |->
                      IF sql_mode = "strict" THEN Stored(df[i])
                      ELSE Truncated(Stored(df[i]))],
                   tpk, pks)

\* the server rejects the INSERT statement: no such table, a column of the
\* DataFrame the table lacks, or under strict sql_mode a value that is longer
\* than its column
server_rejects(d, df) ==
  \/ ~d.exists
  \/ ~(DOMAIN df[1] \subseteq d.cols)
  \/ sql_mode = "strict" /\ \E i \in 1..Len(df) : TooLong(df[i])

\* the rows of the table after the statement: new rows hold the default in
\* the columns the INSERT did not name
Pad(rows, cols) == {IF DOMAIN t = cols THEN t ELSE Fit(t, cols) : t \in rows}

\* variant: ORDER BY `sort_col` ASC
ordered_before_asc(a, b, col) == StrLess(a[col], b[col])

\* ORDER BY `sort_col` DESC: a comes strictly before b
ordered_before(a, b, col) == StrLess(b[col], a[col])

\* PARTITION BY `Symbol`
Partition(view, s) == {t \in view : t.Symbol = s}

\* variant: RANK() in place of ROW_NUMBER(): rows of equal sort value share
\* a rank
ranked_over_rank(view, col, n) ==
  {{t \in view :
      Cardinality({u \in Partition(view, t.Symbol) : StrLess(t[col], u[col])}) >= n}}

\* ranked.row_num > max_row_key: the sets of rows ROW_NUMBER() can number
\* above n (rows of equal sort value are numbered in an order the engine picks)
ranked_over(view, col, n) ==
  {S \in SUBSET view :
     \A s \in Symbols :
       LET P == Partition(view, s)
       IN  /\ Cardinality(S \cap P) =
                IF Cardinality(P) > n THEN Cardinality(P) - n ELSE 0
           /\ \A d \in S \cap P, k \in P \ S : ~ordered_before(d, k, col)}

\* variant: the join matches on the last key column alone
last_key_condition(t, sub, pks) == t[pks[Len(pks)]] = sub[pks[Len(pks)]]

\* ON t.`pk` = sub.`pk` for every pk of self.primary_keys
primary_key_conditions(t, sub, pks) ==
  \A i \in 1..Len(pks) : t[pks[i]] = sub[pks[i]]

\* variant: DELETE ... LIMIT 1, one row goes per statement
delete_query_limit_one(view, over, pks) ==
  IF over = {} THEN view ELSE view \ {CHOOSE t \in over : TRUE}

\* DELETE t FROM table AS t JOIN (...) AS sub ON ...: the rows left
delete_query(view, over, pks) ==
  {t \in view : ~\E sub \in over : primary_key_conditions(t, sub, pks)}

\* `if self.max_row_key and self.sort_col`
Truthy(n) == n # NoInt /\ n[1] # 0
PolicySet == Truthy(max_row_key) /\ sort_col # None

\* variant: a max_row_key left None read as the cap 0
enforce_max_rows_zero(d, failed) ==
  IF connection = None THEN {[db |-> d, stmts |-> <<>>]}
  ELSE IF Len(primary_keys) = 0 \/ sort_col = None
       THEN {[db |-> d, stmts |-> <<>>]}
  ELSE IF \/ failed \/ ~d.exists
          \/ ~KeyColumnsIn(d.cols, primary_keys)
          \/ {"Symbol", sort_col} \ d.cols # {}
       THEN {[db |-> d, stmts |-> <<"DELETE raised">>]}
  ELSE {[db |-> commit([d EXCEPT !.session =
                          delete_query(d.session, over, primary_keys)]),
         stmts |-> <<"DELETE", "COMMIT">>]
          : over \in ranked_over(d.session, sort_col,
                                 IF max_row_key = NoInt THEN 0 ELSE max_row_key[1])}

\* _enforce_max_rows(): the outcomes of one call; `failed` is the driver
\* raising Error on the DELETE
enforce_max_rows(d, failed) ==
  IF connection = None THEN {[db |-> d, stmts |-> <<>>]}
  ELSE IF Len(primary_keys) = 0 \/ sort_col = None
       THEN {[db |-> d, stmts |-> <<>>]}
  ELSE IF \/ failed \/ max_row_key = NoInt \/ ~d.exists
          \/ ~KeyColumnsIn(d.cols, primary_keys)
          \/ {"Symbol", sort_col} \ d.cols # {}
       THEN {[db |-> d, stmts |-> <<"DELETE raised">>]}
  ELSE {[db |-> commit([d EXCEPT !.session =
                          delete_query(d.session, over, primary_keys)]),
         stmts |-> <<"DELETE", "COMMIT">>]
          : over \in ranked_over(d.session, sort_col, max_row_key[1])}

\* variant: the retention trim run before the insert step
trim_before_insert(d, df, rejected, trimFailed) ==
  IF connection = None \/ Len(df) = 0
  THEN {[db |-> d, stmts |-> <<>>, inserted |-> d.session]}
  ELSE
    {LET d1 == create_table_if_not_exists(o.db, DOMAIN df[1], primary_keys)
         rej == rejected \/ server_rejects(d1, df)
         d2 == [d1 EXCEPT !.session =
                  Pad(executemany(d1.session, df, d1.pk, primary_keys, rej), d1.cols)]
         d3 == IF rej THEN d2 ELSE commit(d2)
     IN  [db |-> d3,
          stmts |-> o.stmts \o <<"CREATE", "COMMIT">> \o
                    (IF rej THEN <<"INSERT raised">> ELSE <<"INSERT", "COMMIT">>),
          inserted |-> d3.session]
       : o \in (IF PolicySet
                THEN enforce_max_rows(create_table_if_not_exists(d, DOMAIN df[1], primary_keys),
                                      trimFailed)
                ELSE {[db |-> d, stmts |-> <<>>]})}

\* variant: the `if df.empty: return` test left out
insert_or_update_unguarded(d, df, rejected, trimFailed) ==
  IF connection = None
  THEN {[db |-> d, stmts |-> <<>>, inserted |-> d.session]}
  ELSE
    LET columns == IF Len(df) = 0 THEN ColumnSet(Columns) ELSE DOMAIN df[1]
        d1 == create_table_if_not_exists(d, columns, primary_keys)
        rej == rejected \/ (Len(df) > 0 /\ server_rejects(d1, df))
        d2 == [d1 EXCEPT !.session =
                 Pad(executemany(d1.session, df, d1.pk, primary_keys, rej), d1.cols)]
        d3 == IF rej THEN d2 ELSE commit(d2)
        s3 == IF rej THEN <<"INSERT raised">> ELSE <<"INSERT", "COMMIT">>
    IN  {[db |-> o.db, stmts |-> c \o s3 \o o.stmts, inserted |-> d3.session]
           : c \in create_log(d, columns, primary_keys),
             o \in (IF PolicySet THEN enforce_max_rows(d3, trimFailed)
                    ELSE {[db |-> d3, stmts |-> <<>>]})}

\* insert_or_update(df): the outcomes of one call; `rejected` is the driver
\* raising Error on the INSERT for a reason of its own (a lost connection,
\* a lock timeout)
insert_or_update_outcomes(d, df, rejected, trimFailed) ==
  IF connection = None \/ Len(df) = 0
  THEN {[db |-> d, stmts |-> <<>>, inserted |-> d.session]}
  ELSE
    LET d1 == create_table_if_not_exists(d, DOMAIN df[1], primary_keys)
        rej == rejected \/ server_rejects(d1, df)
        d2 == [d1 EXCEPT !.session =
                 Pad(executemany(d1.session, df, d1.pk, primary_keys, rej), d1.cols)]
        d3 == IF rej THEN d2 ELSE commit(d2)
        s3 == IF rej THEN <<"INSERT raised">> ELSE <<"INSERT", "COMMIT">>
    IN  {[db |-> o.db, stmts |-> c \o s3 \o o.stmts, inserted |-> d3.session]
           : c \in create_log(d, DOMAIN df[1], primary_keys),
             o \in (IF PolicySet THEN enforce_max_rows(d3, trimFailed)
                    ELSE {[db |-> d3, stmts |-> <<>>]})}

\* create_table_if_not_exists(df) called on its own: the outcomes
create_table_outcomes(d, columns) ==
  IF connection = None THEN {[db |-> d, stmts |-> <<>>]}
  ELSE {[db |-> create_table_if_not_exists(d, columns, primary_keys), stmts |-> c]
          : c \in create_log(d, columns, primary_keys)}

\* pd.DataFrame(): no columns, no rows
EmptyFrame == [columns |-> {}, rows |-> {}]

\* read_table(): the outcomes of one call.  `cursorFailed` is the driver
\* raising Error when pandas asks the connection for a cursor (a lost
\* connection): that Error reaches `except Error`.  An Error raised by the
\* SELECT itself is caught inside pd.read_sql and raised again as
\* pandas.errors.DatabaseError, which is no mysql.connector Error
read_table_outcomes(d, cursorFailed) ==
  IF connection = None
  THEN [stmts |-> <<>>, raised |-> FALSE, result |-> EmptyFrame]
  ELSE IF cursorFailed
  THEN [stmts |-> <<"SELECT raised">>, raised |-> FALSE, result |-> EmptyFrame]
  ELSE IF ~d.exists
  THEN [stmts |-> <<"SELECT raised">>, raised |-> TRUE, result |-> EmptyFrame]
  ELSE [stmts |-> <<"SELECT">>, raised |-> FALSE,
        result |-> [columns |-> d.cols, rows |-> d.session]]

\* ------------------------------------------------------------- actions
\* how a statement fared in the log of a call: executed, raised Error, or
\* never issued
Fared(log, stmt, raised) ==
  IF \E i \in 1..Len(log) : log[i] = stmt THEN "done"
  ELSE IF \E i \in 1..Len(log) : log[i] = raised THEN "raised"
  ELSE "none"

Store(d) ==
  /\ table_exists' = d.exists
  /\ table_pk' = d.pk
  /\ table_cols' = d.cols
  /\ committed' = d.committed
  /\ session' = d.session

insert_or_update(df, rejected, trimFailed) ==
  \E o \in insert_or_update_outcomes(Db, df, rejected, trimFailed) :
    /\ Store(o.db)
    /\ last' = [op |-> "insert_or_update", df |-> df, stmts |-> o.stmts,
                rows |-> [i \in 1..Len(df) |-> Stored(df[i])],
                insert |-> Fared(o.stmts, "INSERT", "INSERT raised"),
                trim |-> Fared(o.stmts, "DELETE", "DELETE raised"),
                before |-> committed, inserted |-> o.inserted,
                prev |-> last.stmts, fault |-> rejected \/ trimFailed]
    /\ UNCHANGED <<connection, primary_keys, max_row_key, sort_col, sql_mode>>

_enforce_max_rows(failed) ==
  \E o \in enforce_max_rows(Db, failed) :
    /\ Store(o.db)
    /\ last' = [op |-> "_enforce_max_rows", df |-> <<>>, stmts |-> o.stmts,
                rows |-> <<>>,
                insert |-> "none",
                trim |-> Fared(o.stmts, "DELETE", "DELETE raised"),
                before |-> committed, inserted |-> session,
                prev |-> last.stmts, fault |-> failed, first |-> last.before]
    /\ UNCHANGED <<connection, primary_keys, max_row_key, sort_col, sql_mode>>

close_connection ==
  /\ connection' = IF connection = None THEN None ELSE "closed"
  /\ last' = [op |-> "close_connection", df |-> <<>>, stmts |-> <<>>,
              rows |-> <<>>, insert |-> "none", trim |-> "none",
              before |-> committed, inserted |-> session,
              prev |-> last.stmts, fault |-> FALSE]
  /\ UNCHANGED <<primary_keys, max_row_key, sort_col, sql_mode, table_exists,
                 table_pk, table_cols, committed, session>>

read_table(cursorFailed) ==
  LET o == read_table_outcomes(Db, cursorFailed)
  IN  /\ last' = [op |-> "read_table", df |-> <<>>, stmts |-> o.stmts,
                  rows |-> <<>>, insert |-> "none", trim |-> "none",
                  before |-> committed, inserted |-> session,
                  prev |-> last.stmts, fault |-> cursorFailed,
                  raised |-> o.raised, result |-> o.result]
      /\ UNCHANGED <<connection, primary_keys, max_row_key, sort_col, sql_mode,
                     table_exists, table_pk, table_cols, committed, session>>

\* the inputs that matter to a call
Rejections(df) == IF connection # None /\ Len(df) > 0 THEN BOOLEAN ELSE {FALSE}
TrimFailures == IF connection # None /\ sort_col # None THEN BOOLEAN ELSE {FALSE}

\* the job calls insert_or_update with the scraped DataFrame
Call ==
  /\ pc = "constructed"
  /\ \E df \in Batches : \E rejected \in Rejections(df) :
       \E trimFailed \in (IF PolicySet /\ Len(df) > 0 THEN TrimFailures ELSE {FALSE}) :
         insert_or_update(df, rejected, trimFailed)
  /\ pc' = "called"
  /\ UNCHANGED job

\* insert_or_update is called a second time with the same row (a DataFrame
\* of that one row); a second call with other rows is a Call of a later run
Repeat ==
  /\ pc = "called"
  /\ last.op = "insert_or_update"
  /\ Len(last.df) = 1
  /\ \E rejected \in Rejections(last.df) :
       \E trimFailed \in (IF PolicySet /\ Len(last.df) > 0 THEN TrimFailures ELSE {FALSE}) :
         insert_or_update(last.df, rejected, trimFailed)
  /\ pc' = "repeated"
  /\ UNCHANGED job

\* _enforce_max_rows called on its own
Enforce ==
  /\ pc = "constructed"
  /\ \E failed \in TrimFailures : _enforce_max_rows(failed)
  /\ pc' = "called"
  /\ UNCHANGED job

\* the job calls insert_or_update with a DataFrame that carries a Summary
CallWide ==
  /\ pc = "constructed"
  /\ \E df \in WideBatches : \E rejected \in Rejections(df) :
       \E trimFailed \in (IF PolicySet THEN TrimFailures ELSE {FALSE}) :
         insert_or_update(df, rejected, trimFailed)
  /\ pc' = "called"
  /\ UNCHANGED job

\* create_table_if_not_exists called on its own with a DataFrame of either
\* column set
Create ==
  /\ pc = "constructed"
  /\ \E columns \in {ColumnSet(Columns), ColumnSet(WideColumns)} :
       \E o \in create_table_outcomes(Db, columns) :
         /\ Store(o.db)
         /\ last' = [op |-> "create_table_if_not_exists", df |-> <<>>,
                     stmts |-> o.stmts, rows |-> <<>>,
                     insert |-> "none", trim |-> "none",
                     before |-> committed, inserted |-> session,
                     prev |-> last.stmts, fault |-> FALSE]
  /\ UNCHANGED <<connection, primary_keys, max_row_key, sort_col, sql_mode>>
  /\ pc' = "called"
  /\ UNCHANGED job

\* close_connection, the last call a job makes on a connector
Close ==
  /\ pc = "constructed"
  /\ close_connection
  /\ pc' = "called"
  /\ UNCHANGED job

\* the job reads a source table
Read ==
  /\ pc = "constructed"
  /\ \E cursorFailed \in (IF connection = None THEN {FALSE} ELSE BOOLEAN) :
       read_table(cursorFailed)
  /\ pc' = "called"
  /\ UNCHANGED job

\* _enforce_max_rows called again, straight after a call of it
EnforceAgain ==
  /\ pc = "called"
  /\ last.op = "_enforce_max_rows"
  /\ \E failed \in TrimFailures : _enforce_max_rows(failed)
  /\ pc' = "repeated"
  /\ UNCHANGED job

\* ------------------------------------------------------------- specification
PrimaryKeyChoices == {<<"Symbol", "Timestamp">>, <<"Timestamp">>}

\* the tables a run can find: none yet, or rows that respect the PRIMARY KEY
StoreTables(pks) == {T \in SUBSET AllStored : KeyUnique(T, pks)}

Init ==
  /\ connection \in {"open", None}
  /\ primary_keys \in PrimaryKeyChoices
  /\ max_row_key \in {NoInt} \cup {Some(n) : n \in 1..MaxCap}
  /\ sort_col \in {None, "Timestamp", "Close"}
  /\ table_exists \in BOOLEAN
  /\ table_pk = IF table_exists THEN primary_keys ELSE <<>>
  /\ table_cols = IF table_exists THEN ColumnSet(Columns) ELSE {}
  /\ sql_mode = "strict"
  /\ committed \in IF table_exists THEN StoreTables(primary_keys) ELSE {{}}
  \* a connector that failed to connect never reaches the table: one row
  \* stands for whatever it holds
  /\ connection = None => Cardinality(committed) <= 1
  /\ session = committed
  /\ pc = "constructed"
  /\ job = NoJob
  /\ last = [op |-> "none", df |-> <<>>, rows |-> <<>>, stmts |-> <<>>,
             insert |-> "none",
             trim |-> "none", before |-> committed, inserted |-> committed,
             prev |-> <<>>, fault |-> FALSE]

Next == Call \/ Repeat \/ Enforce

\* runs of any connector
Spec == Init /\ [][Next]_vars

\* runs of a connector constructed with a retention policy (max_row_key and
\* sort_col both given, as the news jobs do)
InitRetention == Init /\ PolicySet
SpecRetention == InitRetention /\ [][Next]_vars

\* runs of a connector constructed without one
InitPlain == Init /\ ~PolicySet
SpecPlain == InitPlain /\ [][Next]_vars

\* runs of a connector constructed with primary_keys omitted: line 21 wraps
\* the default None into the list [None].  The table is missing, or a job
\* that named its key columns created it
InitNoKey ==
  /\ connection \in {"open", None}
  /\ primary_keys = NoKeys
  /\ max_row_key \in {NoInt} \cup {Some(n) : n \in 1..MaxCap}
  /\ sort_col \in {None, "Timestamp", "Close"}
  /\ table_exists \in BOOLEAN
  /\ table_pk \in IF table_exists THEN PrimaryKeyChoices ELSE {<<>>}
  /\ table_cols = IF table_exists THEN ColumnSet(Columns) ELSE {}
  /\ sql_mode = "strict"
  /\ committed \in IF table_exists THEN StoreTables(table_pk) ELSE {{}}
  /\ connection = None => Cardinality(committed) <= 1
  /\ session = committed
  /\ pc = "constructed"
  /\ job = NoJob
  /\ last = [op |-> "none", df |-> <<>>, rows |-> <<>>, stmts |-> <<>>,
             insert |-> "none",
             trim |-> "none", before |-> committed, inserted |-> committed,
             prev |-> <<>>, fault |-> FALSE]
SpecNoKey == InitNoKey /\ [][Next]_vars

\* runs that meet a table of another shape: the table is missing, or an
\* earlier run created it from a DataFrame with or without a Summary and
\* with a key of its own; the server runs in strict or in non-strict sql_mode
WideStored ==
  {[Symbol |-> r.Symbol, Timestamp |-> r.Timestamp, Close |-> Digits(r.Close),
    Summary |-> m] : r \in WideRows, m \in {VarcharLimit, Null}}
SchemaTables(cols, pks) ==
  {T \in SUBSET (IF "Summary" \in cols THEN WideStored ELSE AllStored) :
     Cardinality(T) <= 2 /\ KeyUnique(T, pks)}
InitSchema ==
  /\ connection = "open"
  /\ primary_keys \in PrimaryKeyChoices
  /\ max_row_key \in {NoInt} \cup {Some(n) : n \in 1..MaxCap}
  /\ sort_col \in {None, "Timestamp"}
  /\ sql_mode \in {"strict", "loose"}
  /\ table_exists \in BOOLEAN
  /\ table_pk \in IF table_exists THEN PrimaryKeyChoices ELSE {<<>>}
  /\ table_cols \in IF table_exists
                    THEN {ColumnSet(Columns), ColumnSet(WideColumns)} ELSE {{}}
  /\ committed \in IF table_exists THEN SchemaTables(table_cols, table_pk) ELSE {{}}
  /\ session = committed
  /\ pc = "constructed"
  /\ job = NoJob
  /\ last = [op |-> "none", df |-> <<>>, rows |-> <<>>, stmts |-> <<>>,
             insert |-> "none",
             trim |-> "none", before |-> committed, inserted |-> committed,
             prev |-> <<>>, fault |-> FALSE]
NextSchema == Call \/ CallWide \/ Create
SpecSchema == InitSchema /\ [][NextSchema]_vars

\* runs of a connector whose _connect_to_database returned None
InitOffline == Init /\ connection = None
NextOffline == Call \/ Repeat \/ Enforce \/ Create \/ Close
SpecOffline == InitOffline /\ [][NextOffline]_vars

\* runs of a connector that reads its table
NextRead == Read \/ Close
SpecRead == Init /\ [][NextRead]_vars

\* runs that call _enforce_max_rows twice on a connector with a policy
NextTrimTwice == Enforce \/ EnforceAgain
SpecTrimTwice == InitRetention /\ [][NextTrimTwice]_vars

\* ------------------------------------------------------------- job scripts
\* the lines the scripts print
Inserted == "Data inserted successfully."
NoData == "No data found in source table. No processing performed."
Unexpected == "Unexpected error in main execution"

At(kind, at) == job.kind = kind /\ job.at = at

\* MySQLDataConnector(...): the connection _connect_to_database returns
Construct(name, at) ==
  /\ connection' \in {"open", None}
  /\ job' = [job EXCEPT !.at = at,
                        !.bound = @ \cup {name},
                        !.open = IF connection' = "open" THEN @ \cup {name} ELSE @]

StoreUnchanged ==
  UNCHANGED <<primary_keys, max_row_key, sort_col, sql_mode, table_exists,
              table_pk, table_cols, committed, session, pc, last>>

\* scraping_investing_news.py
\* df = scraper.scrape_investing_news()
Scrape ==
  /\ At("investing_news", "start")
  /\ \E df \in Batches : job' = [job EXCEPT !.at = "scraped", !.df = df]
  /\ UNCHANGED connection /\ StoreUnchanged

\* if not df.empty: connector = MySQLDataConnector(...)
ConstructConnector ==
  /\ At("investing_news", "scraped") /\ Len(job.df) > 0
  /\ Construct("connector", "constructed")
  /\ StoreUnchanged

\* connector.insert_or_update(df)
InsertScraped ==
  /\ At("investing_news", "constructed")
  /\ \E rejected \in Rejections(job.df) : \E trimFailed \in TrimFailures :
       insert_or_update(job.df, rejected, trimFailed)
  /\ job' = [job EXCEPT !.at = "inserted"]
  /\ UNCHANGED pc

\* connector.close_connection()
CloseConnector ==
  /\ At("investing_news", "inserted")
  /\ close_connection
  /\ job' = [job EXCEPT !.at = "closed", !.open = @ \ {"connector"}]
  /\ UNCHANGED pc

\* print("Data inserted successfully.")
ReportInserted ==
  /\ At("investing_news", "closed")
  /\ job' = [job EXCEPT !.at = "reported", !.printed = @ \cup {Inserted}]
  /\ UNCHANGED connection /\ StoreUnchanged

\* scraper.close_browser(): the script ends
CloseBrowser ==
  /\ \/ At("investing_news", "reported")
     \/ At("investing_news", "scraped") /\ Len(job.df) = 0
  /\ job' = [job EXCEPT !.at = "done"]
  /\ UNCHANGED connection /\ StoreUnchanged

\* news_summarizer_sentiment_analyzer.py
\* the source tables yfinance_news and investing_news as a read finds them:
\* missing, or holding the rows the scraping jobs left
SourceTables ==
  {[exists |-> FALSE, pk |-> <<>>, cols |-> {}, committed |-> {}, session |-> {}]}
  \cup {[exists |-> TRUE, pk |-> <<"Symbol", "Timestamp">>,
         cols |-> ColumnSet(Columns), committed |-> T, session |-> T]
          : T \in SUBSET {r \in AllStored : r.Symbol = "A" /\ r.Close = Digits(9)}}

\* df = connector.read_table(): an exception leaves the try block
ReadSource(at) ==
  \E src \in SourceTables :
    \E cursorFailed \in (IF connection = None THEN {FALSE} ELSE BOOLEAN) :
      LET o == read_table_outcomes(src, cursorFailed)
      IN  job' = IF o.raised THEN [job EXCEPT !.at = "except"]
                 ELSE [job EXCEPT !.at = at, !.frames = Append(@, o.result)]

ConstructYf ==
  /\ At("news_summary", "start")
  /\ Construct("connector_yf", "yf")
  /\ StoreUnchanged

ReadYf ==
  /\ At("news_summary", "yf")
  /\ ReadSource("read_yf")
  /\ UNCHANGED connection /\ StoreUnchanged

ConstructInv ==
  /\ At("news_summary", "read_yf")
  /\ Construct("connector_inv", "inv")
  /\ StoreUnchanged

ReadInv ==
  /\ At("news_summary", "inv")
  /\ ReadSource("read_inv")
  /\ UNCHANGED connection /\ StoreUnchanged

\* pd.concat([df_yf, df_inv]) and drop_duplicates(subset=[...]): KeyError
\* when the frame has no such column (both frames are pd.DataFrame())
Merge ==
  /\ At("news_summary", "read_inv")
  /\ LET df == [columns |-> job.frames[1].columns \cup job.frames[2].columns,
                rows |-> job.frames[1].rows \cup job.frames[2].rows]
     IN  job' = IF "Symbol" \in df.columns
                THEN [job EXCEPT !.at = "merged", !.frames = <<df>>]
                ELSE [job EXCEPT !.at = "except", !.frames = <<>>]
  /\ UNCHANGED connection /\ StoreUnchanged

\* if not df.empty: summarize_news, analyze_sentiment, the "Last Updated"
\* column: the DataFrame to store, or an exception (a missing column, the
\* model pipeline)
Process ==
  /\ At("news_summary", "merged") /\ job.frames[1].rows # {}
  /\ \/ \E df \in Batches :
          job' = [job EXCEPT !.at = "processed", !.df = df, !.frames = <<>>]
     \/ job' = [job EXCEPT !.at = "except", !.frames = <<>>]
  /\ UNCHANGED connection /\ StoreUnchanged

ConstructOut ==
  /\ At("news_summary", "processed")
  /\ Construct("connector", "constructed")
  /\ StoreUnchanged

\* connector.insert_or_update(df); print("Data inserted successfully.")
InsertProcessed ==
  /\ At("news_summary", "constructed")
  /\ \E rejected \in Rejections(job.df) : \E trimFailed \in TrimFailures :
       insert_or_update(job.df, rejected, trimFailed)
  /\ job' = [job EXCEPT !.at = "after_if", !.printed = @ \cup {Inserted}]
  /\ UNCHANGED pc

\* else: print("No data found in source table. ...")
ReportNoData ==
  /\ At("news_summary", "merged") /\ job.frames[1].rows = {}
  /\ job' = [job EXCEPT !.at = "after_if", !.printed = @ \cup {NoData},
                        !.frames = <<>>]
  /\ UNCHANGED connection /\ StoreUnchanged

\* connector.close_connection(), after the if/else: NameError when the else
\* branch ran and `connector` was never bound
CloseOut ==
  /\ At("news_summary", "after_if")
  /\ IF "connector" \in job.bound
     THEN /\ close_connection
          /\ job' = [job EXCEPT !.at = "done", !.open = @ \ {"connector"}]
          /\ UNCHANGED pc
     ELSE /\ job' = [job EXCEPT !.at = "except"]
          /\ UNCHANGED connection /\ StoreUnchanged

\* except Exception as e: print(...): the script ends
Except ==
  /\ At("news_summary", "except")
  /\ job' = [job EXCEPT !.at = "done", !.printed = @ \cup {Unexpected}]
  /\ UNCHANGED connection /\ StoreUnchanged

\* a script is started: no connector is constructed yet, the table it writes
\* is missing or holds the rows of earlier runs
JobStart(kind) ==
  [kind |-> kind, at |-> "start", df |-> <<>>, printed |-> {},
   bound |-> {}, open |-> {}, frames |-> <<>>]
InitJobs ==
  /\ job \in {JobStart(kind) : kind \in {"investing_news", "news_summary"}}
  /\ connection = None
  /\ primary_keys = <<"Symbol", "Timestamp">>
  /\ max_row_key = Some(1)
  /\ sort_col = "Timestamp"
  /\ sql_mode = "strict"
  /\ table_exists \in BOOLEAN
  /\ table_pk = IF table_exists THEN primary_keys ELSE <<>>
  /\ table_cols = IF table_exists THEN ColumnSet(Columns) ELSE {}
  /\ committed \in IF table_exists
                   THEN SchemaTables(ColumnSet(Columns), primary_keys) ELSE {{}}
  /\ session = committed
  /\ pc = "constructed"
  /\ last = [op |-> "none", df |-> <<>>, rows |-> <<>>, stmts |-> <<>>,
             insert |-> "none",
             trim |-> "none", before |-> committed, inserted |-> committed,
             prev |-> <<>>, fault |-> FALSE]
NextJobs ==
  \/ Scrape \/ ConstructConnector \/ InsertScraped \/ CloseConnector
  \/ ReportInserted \/ CloseBrowser
  \/ ConstructYf \/ ReadYf \/ ConstructInv \/ ReadInv \/ Merge \/ Process
  \/ ConstructOut \/ InsertProcessed \/ ReportNoData \/ CloseOut \/ Except
SpecJobs == InitJobs /\ [][NextJobs]_vars

\* yfinance_data_fetcher.py: process_all_symbols
\* what fetch_data returns: rows, an empty frame (no data, printed), or an
\* empty frame after `except Exception` printed the error
Fetches == {"data", "empty", "failed"}
\* how cleaning, saving and uploading one frame ends: done, or an exception
\* (to_csv cannot write; the Sheets API refuses) that nothing catches
Handlings == {"uploaded", "save raised", "upload raised"}

\* minute_data = self.fetch_data(...); daily_data = self.fetch_data(...)
FetchSymbol ==
  /\ At("yfinance", "loop") /\ job.i <= job.n
  /\ \E minute, daily \in Fetches :
       job' = [job EXCEPT !.at = "minute", !.minute = minute, !.daily = daily,
                          !.fetched = @ \cup {job.i},
                          !.skipped = @ \cup {<<job.i, "minutes">> : x \in {minute} \ {"data"}}
                                        \cup {<<job.i, "daily">> : x \in {daily} \ {"data"}}]
  /\ UNCHANGED connection /\ StoreUnchanged

\* if not minute_data.empty: clean_data, save_to_csv, upload_to_google_sheets
HandleMinute ==
  /\ At("yfinance", "minute")
  /\ IF job.minute # "data" THEN job' = [job EXCEPT !.at = "daily"]
     ELSE \E how \in Handlings :
            job' = IF how = "uploaded"
                   THEN [job EXCEPT !.at = "daily",
                                    !.uploaded = @ \cup {<<job.i, "minutes">>}]
                   ELSE [job EXCEPT !.at = "raised"]
  /\ UNCHANGED connection /\ StoreUnchanged

\* if not daily_data.empty: ...; then the next symbol of symbol_map
HandleDaily ==
  /\ At("yfinance", "daily")
  /\ IF job.daily # "data" THEN job' = [job EXCEPT !.at = "loop", !.i = @ + 1]
     ELSE \E how \in Handlings :
            job' = IF how = "uploaded"
                   THEN [job EXCEPT !.at = "loop", !.i = @ + 1,
                                    !.uploaded = @ \cup {<<job.i, "daily">>}]
                   ELSE [job EXCEPT !.at = "raised"]
  /\ UNCHANGED connection /\ StoreUnchanged

\* symbol_map.items() is exhausted: process_all_symbols returns
EndLoop ==
  /\ At("yfinance", "loop") /\ job.i > job.n
  /\ job' = [job EXCEPT !.at = "done"]
  /\ UNCHANGED connection /\ StoreUnchanged

InitFetcher ==
  /\ job \in {[kind |-> "yfinance", at |-> "loop", n |-> n, i |-> 1,
                minute |-> "empty", daily |-> "empty", fetched |-> {},
                skipped |-> {}, uploaded |-> {}] : n \in 1..MaxSymbols}
  /\ connection = None
  /\ primary_keys = <<>>
  /\ max_row_key = NoInt
  /\ sort_col = None
  /\ sql_mode = "strict"
  /\ table_exists = FALSE
  /\ table_pk = <<>>
  /\ table_cols = {}
  /\ committed = {}
  /\ session = {}
  /\ pc = "constructed"
  /\ last = [op |-> "none", df |-> <<>>, rows |-> <<>>, stmts |-> <<>>,
             insert |-> "none",
             trim |-> "none", before |-> {}, inserted |-> {},
             prev |-> <<>>, fault |-> FALSE]
NextFetcher == FetchSymbol \/ HandleMinute \/ HandleDaily \/ EndLoop
SpecFetcher == InitFetcher /\ [][NextFetcher]_vars

\* ------------------------------------------------------------- Google Sheets
\* GoogleSheetsUploader (src/google_sheet_api.py) against one spreadsheet
\* add_worksheet(title=name_sheet, rows="100", cols="20")
NewRows == 100
NewCols == 20
\* worksheet titles: the one the job names and a neighbour
Titles == {"A_news", "B_news"}
\* no worksheet of that title
NoSheet == [rows |-> 0, cols |-> 0, values |-> {}, made |-> FALSE]
\* the cells of a rectangle of h rows and w columns filled from `data`: a
\* cell is <<row, column, data>>
Cells(h, w, data) == {<<i, j, data>> : i \in 1..h, j \in 1..w}
\* a worksheet with old contents
OldSheets ==
  {[rows |-> NewRows, cols |-> NewCols, values |-> Cells(h, w, "old"), made |-> TRUE]
     : h \in 0..MaxSide, w \in 0..MaxSide}
\* the CSV file handed to upload_to_sheets: not there, without any column,
\* malformed, or a table (header and rows) of h lines and w columns
CsvFiles ==
  {[kind |-> k, h |-> 0, w |-> 0] : k \in {"missing", "empty", "malformed"}}
  \cup {[kind |-> "table", h |-> h, w |-> w] : h \in 1..MaxSide, w \in 1..MaxSide}

\* read_csv: the DataFrame, or the exception raised again
read_csv(file) ==
  IF file.kind = "table"
  THEN [raised |-> FALSE, df |-> Cells(file.h, file.w, "csv")]
  ELSE [raised |-> TRUE, df |-> {}]

\* variant: no worksheet is added, the lookup fails for a missing title
get_sheet_no_add(book, found, name) ==
  IF ~found \/ ~book[name].made THEN [raised |-> TRUE, book |-> book]
  ELSE [raised |-> FALSE, book |-> book]

\* get_sheet: the spreadsheet with the worksheet in it; SpreadsheetNotFound
\* is raised again as FileNotFoundError
get_sheet(book, found, name) ==
  IF ~found THEN [raised |-> TRUE, book |-> book]
  ELSE IF ~book[name].made
  THEN [raised |-> FALSE,
        book |-> [book EXCEPT ![name] = [rows |-> NewRows, cols |-> NewCols,
                                         values |-> {}, made |-> TRUE]]]
  ELSE [raised |-> FALSE, book |-> book]

\* variant: the sheet is left as it is
clear_sheet_none(sheet) == sheet

\* clear_sheet: sheet.clear() removes every value, the grid stays
clear_sheet(sheet) == [sheet EXCEPT !.values = {}]

Larger(a, b) == IF a > b THEN a ELSE b

\* set_with_dataframe(sheet, df): the cells of the DataFrame's rectangle are
\* written from the top left, other cells are left, the grid grows to fit
set_with_dataframe(sheet, df) ==
  LET at == {<<c[1], c[2]>> : c \in df}
  IN  [sheet EXCEPT
         !.values = {c \in sheet.values : <<c[1], c[2]>> \notin at} \cup df,
         !.rows = Larger(@, Cardinality({c[1] : c \in df})),
         !.cols = Larger(@, Cardinality({c[2] : c \in df}))]

\* variant: the worksheet is fetched and cleared before the CSV is read
upload_clear_first(book, found, file, name) ==
  LET got == get_sheet(book, found, name)
      df == read_csv(file)
  IN  IF got.raised THEN [raised |-> TRUE, book |-> book]
      ELSE IF df.raised
      THEN [raised |-> TRUE,
            book |-> [got.book EXCEPT ![name] = clear_sheet(@)]]
      ELSE [raised |-> FALSE,
            book |-> [got.book EXCEPT ![name] = set_with_dataframe(clear_sheet(@), df.df)]]

\* upload_to_sheets(csv_file, name_sheet): read_csv, get_sheet, clear_sheet,
\* set_with_dataframe, in that order; an exception ends the call
upload_to_sheets(book, found, file, name) ==
  LET df == read_csv(file)
      got == get_sheet(book, found, name)
  IN  IF df.raised \/ got.raised THEN [raised |-> TRUE, book |-> book]
      ELSE [raised |-> FALSE,
            book |-> [got.book EXCEPT ![name] = set_with_dataframe(clear_sheet(@), df.df)]]

\* get_sheet_as_dataframe(name_sheet): get_sheet, then the values of the
\* worksheet; any exception is raised again as RuntimeError
get_sheet_as_dataframe(book, found, name) ==
  LET got == get_sheet(book, found, name)
  IN  IF got.raised THEN [raised |-> TRUE, book |-> book, df |-> {}]
      ELSE [raised |-> FALSE, book |-> got.book, df |-> got.book[name].values]

\* the connector takes no part in these runs
StoreIdle ==
  /\ connection = None
  /\ primary_keys = <<>>
  /\ max_row_key = NoInt
  /\ sort_col = None
  /\ sql_mode = "strict"
  /\ table_exists = FALSE
  /\ table_pk = <<>>
  /\ table_cols = {}
  /\ committed = {}
  /\ session = {}
  /\ pc = "constructed"
  /\ last = [op |-> "none", df |-> <<>>, rows |-> <<>>, stmts |-> <<>>,
             insert |-> "none",
             trim |-> "none", before |-> {}, inserted |-> {},
             prev |-> <<>>, fault |-> FALSE]

\* a job uploads a CSV to a worksheet
Upload ==
  /\ job.kind = "sheets" /\ job.op = "none"
  /\ \E file \in CsvFiles, name \in Titles :
       LET o == upload_to_sheets(job.book, job.found, file, name)
       IN  job' = [job EXCEPT !.op = "upload_to_sheets", !.file = file,
                              !.name = name, !.raised = o.raised,
                              !.book = o.book, !.before = job.book]
  /\ UNCHANGED connection /\ StoreUnchanged

\* a job reads a worksheet
ReadSheet ==
  /\ job.kind = "sheets" /\ job.op = "none"
  /\ \E name \in Titles :
       LET o == get_sheet_as_dataframe(job.book, job.found, name)
       IN  job' = [job EXCEPT !.op = "get_sheet_as_dataframe", !.name = name,
                              !.raised = o.raised, !.df = o.df,
                              !.book = o.book, !.before = job.book]
  /\ UNCHANGED connection /\ StoreUnchanged

\* the spreadsheet as a call finds it: each title missing or with contents;
\* or no spreadsheet of that name
InitSheets ==
  /\ StoreIdle
  /\ \E book \in [Titles -> {NoSheet} \cup OldSheets], found \in BOOLEAN :
       job = [kind |-> "sheets", op |-> "none", book |-> book, found |-> found,
              file |-> [kind |-> "missing", h |-> 0, w |-> 0], name |-> "A_news",
              raised |-> FALSE, df |-> {}, before |-> book]
NextSheets == Upload \/ ReadSheet
SpecSheets == InitSheets /\ [][NextSheets]_vars

\* ------------------------------------------------------------- Yahoo news
\* yfinance_news_fetcher.py, one entry of symbols_yfinance
\* news[:10]
TopNews == 10
\* groupby("Symbol").head(10)
HeadRows == 10
\* symbols_yfinance: a name mapped to its ticker, equal or not
NewsConfigs == {[name |-> "A", ticker |-> "A"], [name |-> "B", ticker |-> "^B"]}
\* a news row; items are numbered in order of publication, Title 0 is ""
Article(symbol, i) == [Symbol |-> symbol, Title |-> i, Published |-> i]
\* the row fetch_news returns when the request raises
NoArticle(symbol) == [Symbol |-> symbol, Title |-> 0, Published |-> 0]
\* consecutive items lo..hi under one Symbol, none when lo > hi
Run(symbol, lo, hi) == {Article(symbol, i) : i \in lo..hi}
\* stock.news: the items Yahoo lists
Feeds(symbol) ==
  {Run(symbol, lo, hi) : lo \in 1..MaxArticles, hi \in 0..MaxArticles}
\* the rows the sheet holds from earlier runs, at most HeadRows of them
OldNews(symbol) ==
  {Run(symbol, w[1], w[2]) :
     w \in {v \in (1..MaxArticles) \X (0..MaxArticles) : v[2] - v[1] < HeadRows}}

\* the first n rows of df in descending order of Published
head(df, n) ==
  {r \in df : Cardinality({q \in df : q.Published > r.Published}) < n}

\* fetch_news(symbol): the top articles under the ticker, or the blank row
fetch_news(symbol, news, failed) ==
  IF failed THEN {NoArticle(symbol)} ELSE head(news, TopNews)

\* concat, drop_duplicates, sort_values, groupby("Symbol").head(10); with no
\* old rows the fetched rows as they are
merge_news(old_news_df, news_df) ==
  LET all == old_news_df \cup news_df
  IN  IF old_news_df = {} THEN news_df
      ELSE UNION {head({r \in all : r.Symbol = s}, HeadRows)
                    : s \in {r.Symbol : r \in all}}

\* save_news_to_csv: Symbol mapped from ticker back to name, duplicates
\* dropped
save_news_to_csv(news_df, config) ==
  {[r EXCEPT !.Symbol = IF @ = config.ticker THEN config.name ELSE @]
     : r \in news_df}

\* news_df = news_fetcher.fetch_all_news()
FetchAllNews ==
  /\ At("yfinance_news", "start")
  /\ \E news \in Feeds(job.config.ticker), failed \in BOOLEAN :
       job' = [job EXCEPT !.at = "fetched",
                          !.news_df = fetch_news(job.config.ticker, news, failed)]
  /\ UNCHANGED connection /\ StoreUnchanged

\* old_news_df = uploader.get_sheet_as_dataframe("yfinance_news"), an empty
\* frame when it raises
ReadOldNews ==
  /\ At("yfinance_news", "fetched")
  /\ \E raised \in BOOLEAN :
       job' = [job EXCEPT !.at = "read",
                          !.old_news_df = IF raised THEN {} ELSE job.sheet]
  /\ UNCHANGED connection /\ StoreUnchanged

\* if not old_news_df.empty: ... else: merged_news_df = news_df
MergeNews ==
  /\ At("yfinance_news", "read")
  /\ job' = [job EXCEPT !.at = "merged",
                        !.merged_news_df = merge_news(job.old_news_df, job.news_df)]
  /\ UNCHANGED connection /\ StoreUnchanged

\* if not merged_news_df.empty: rows with a Title, save_news_to_csv,
\* upload_to_google_sheets
SaveNews ==
  /\ At("yfinance_news", "merged")
  /\ LET titled == {r \in job.merged_news_df : r.Title # 0}
         csv == save_news_to_csv(titled, job.config)
     IN  IF titled = {} THEN job' = [job EXCEPT !.at = "done"]
         ELSE job' = [job EXCEPT !.at = "done", !.saved = TRUE,
                                 !.csv = csv, !.sheet = csv]
  /\ UNCHANGED connection /\ StoreUnchanged

InitNews ==
  /\ StoreIdle
  /\ \E config \in NewsConfigs :
       \E sheet \in OldNews(config.name) :
         job = [kind |-> "yfinance_news", at |-> "start", config |-> config,
                sheet |-> sheet, news_df |-> {}, old_news_df |-> {},
                merged_news_df |-> {}, csv |-> {}, saved |-> FALSE]
NextNews == FetchAllNews \/ ReadOldNews \/ MergeNews \/ SaveNews
SpecNews == InitNews /\ [][NextNews]_vars

\* ------------------------------------------------------------- TradingView
\* scraping_tradingview_overview.py: the numeric columns of df_final
\* characters of a cell: digits, point, comma, unit suffixes, blank
DigitChars == {"1", "3"}
Chars == DigitChars \cup {".", ",", "K", "M", "B", " "}
\* cell.text.strip() of a table cell
CellTexts == UNION {[1..k -> Chars] : k \in 0..MaxText}
\* a float: n * 10^e (no digit of a cell is 0, so the form is unique); NaN
Num(n, e) == [kind |-> "float", n |-> n, e |-> e, text |-> <<>>]
NaN == [kind |-> "nan", n |-> 0, e |-> 0, text |-> <<>>]
ValueError == [kind |-> "ValueError", n |-> 0, e |-> 0, text |-> <<>>]
\* a cell that is still a str
Str(text) == [kind |-> "str", n |-> 0, e |-> 0, text |-> text]

RECURSIVE Without(_, _)
\* str.replace(c, "") for every c of `chars`
Without(text, chars) ==
  IF text = <<>> THEN <<>>
  ELSE IF Head(text) \in chars THEN Without(Tail(text), chars)
  ELSE <<Head(text)>> \o Without(Tail(text), chars)

RECURSIVE Strip(_)
\* blanks at both ends removed, as float() and to_numeric do
Strip(text) ==
  IF text = <<>> THEN <<>>
  ELSE IF Head(text) = " " THEN Strip(Tail(text))
  ELSE IF text[Len(text)] = " " THEN Strip(SubSeq(text, 1, Len(text) - 1))
  ELSE text

RECURSIVE Decimal(_)
\* the integer a run of digits writes
Decimal(digits) ==
  IF digits = <<>> THEN 0
  ELSE 10 * Decimal(SubSeq(digits, 1, Len(digits) - 1))
       + (IF digits[Len(digits)] = "1" THEN 1 ELSE 3)

\* text that float() accepts: digits with at most one point
IsFloat(text) ==
  /\ \A i \in 1..Len(text) : text[i] \in DigitChars \cup {"."}
  /\ \E i \in 1..Len(text) : text[i] \in DigitChars
  /\ Cardinality({i \in 1..Len(text) : text[i] = "."}) <= 1

\* float(text), raising ValueError for anything else
float(text) ==
  LET t == Strip(text)
      point == {i \in 1..Len(t) : t[i] = "."}
      decimals == IF point = {} THEN 0 ELSE Len(t) - (CHOOSE i \in point : TRUE)
  IN  IF IsFloat(t) THEN Num(Decimal(Without(t, {"."})), 0 - decimals)
      ELSE ValueError

\* pd.to_numeric(text, errors='coerce')
to_numeric(text) ==
  IF float(text).kind = "float" THEN float(text) ELSE NaN

\* value * 10^k
Times(value, k) ==
  IF value.kind = "float" THEN Num(value.n, value.e + k) ELSE value

Has(text, c) == \E i \in 1..Len(text) : text[i] = c

\* convert_volume(value): a non-empty str is scaled by its suffix, anything
\* else (a float, NaN, "") gives NaN
convert_volume(value) ==
  IF value.kind = "str" /\ value.text # <<>>
  THEN LET v == Without(value.text, {","})
       IN  IF Has(v, "K") THEN Times(float(Without(v, {"K"})), 3)
           ELSE IF Has(v, "M") THEN Times(float(Without(v, {"M"})), 6)
           ELSE IF Has(v, "B") THEN Times(float(Without(v, {"B"})), 9)
           ELSE float(v)
  ELSE NaN

\* line 129: str.replace(r"[^\d.\sKMB]", "") keeps digits, point, blank and
\* K, M, B; then to_numeric on each cell
numeric_column(text) == to_numeric(Without(text, Chars \ (DigitChars \cup {".", " ", "K", "M", "B"})))

\* the Market cap cell as saved: line 129, then line 147
market_cap(text) == convert_volume(numeric_column(text))

\* the Volume cell as saved: line 146
volume(text) == convert_volume(Str(text))

\* lines 128-147 on a row whose Market cap and Volume cells read `cell`; a
\* ValueError of convert_volume ends the job with nothing saved
ConvertColumns ==
  /\ At("overview", "scraped")
  /\ IF volume(job.cell).kind = "ValueError"
     THEN job' = [job EXCEPT !.at = "raised"]
     ELSE job' = [job EXCEPT !.at = "saved",
                             !.Volume = volume(job.cell),
                             !.MarketCap = market_cap(job.cell)]
  /\ UNCHANGED connection /\ StoreUnchanged

InitOverview ==
  /\ StoreIdle
  /\ \E cell \in CellTexts :
       job = [kind |-> "overview", at |-> "scraped", cell |-> cell,
              Volume |-> NaN, MarketCap |-> NaN]
NextOverview == ConvertColumns
SpecOverview == InitOverview /\ [][NextOverview]_vars

\* ------------------------------------------------------------- summaries
\* NewsProcessor.summarize_news (src/news_summarizer_sentiment_analyzer.py)
\* titles of news rows; (Symbol, Title) is unique after drop_duplicates
Headlines == {"t1", "t2"}
\* the Datetime column as read from the table: two timestamps and a text
\* that is none
DatetimeTexts == {"2025-01-01 00:00:00", "2025-01-02 00:00:00", "soon"}
NaT == 0
\* pd.to_datetime(text, errors="coerce"): the instant, NaT when unparsable
to_datetime(text) ==
  IF text = "2025-01-01 00:00:00" THEN 1
  ELSE IF text = "2025-01-02 00:00:00" THEN 2
  ELSE NaT
\* the Summary column: a text, an empty text, NULL
SummaryTexts == {"rates rise", "", None}
NoRow == [Datetime |-> "absent", Summary |-> None]
\* the frames summarize_news is given
NewsFrames ==
  {{[Symbol |-> k[1], Title |-> k[2], Datetime |-> f[k].Datetime, Summary |-> f[k].Summary]
      : k \in {x \in Symbols \X Headlines : f[x] # NoRow}}
     : f \in [Symbols \X Headlines ->
                {NoRow} \cup [Datetime : DatetimeTexts, Summary : SummaryTexts]]}
\* what model.generate_content does for one prompt
Replies == {"text", "blank", "raise"}
\* order of df["Symbol"].unique()
SymbolOrder == <<"A", "B">>

\* variant: rows without a Datetime are kept
dropna_none(df) == df

\* df.dropna(subset=["Datetime"])
dropna(df) == {r \in df : r.Datetime # NaT}

\* groupby("Symbol")["Datetime"].max() for one symbol (NaT are skipped)
latest_dates(df, symbol) ==
  LET dates == {r.Datetime : r \in {q \in df : q.Symbol = symbol}} \ {NaT}
  IN  IF dates = {} THEN NaT ELSE CHOOSE d \in dates : \A o \in dates : o <= d

\* the row appended for one symbol: lines 72-86
summary_row(df, symbol, reply) ==
  LET latest_published == latest_dates(df, symbol)
      news_summaries == {r.Summary : r \in {q \in df : q.Symbol = symbol}} \ {None, ""}
      summary_text == IF news_summaries = {} THEN ""
                      ELSE IF reply = "text" THEN "summary"
                      ELSE IF reply = "blank" THEN "No summary available"
                      ELSE ""
  IN  [Symbol |-> symbol, Summary |-> summary_text, Last_Updated |-> latest_published]

RECURSIVE summary_rows(_, _, _)
\* for symbol in df["Symbol"].unique(): results.append(...)
summary_rows(df, symbols, reply) ==
  IF symbols = <<>> THEN <<>>
  ELSE IF \E r \in df : r.Symbol = Head(symbols)
  THEN <<summary_row(df, Head(symbols), reply[Head(symbols)])>>
       \o summary_rows(df, Tail(symbols), reply)
  ELSE summary_rows(df, Tail(symbols), reply)

\* summarize_news(df): the rows of the returned frame
summarize_news(df, reply) ==
  IF df = {} THEN <<>>
  ELSE summary_rows(dropna({[r EXCEPT !.Datetime = to_datetime(@)] : r \in df}),
                    SymbolOrder, reply)

\* df = processor.summarize_news(df)
Summarize ==
  /\ At("summarize_news", "start")
  /\ \E reply \in [Symbols -> Replies] :
       job' = [job EXCEPT !.at = "returned", !.reply = reply,
                          !.results = summarize_news(job.df, reply)]
  /\ UNCHANGED connection /\ StoreUnchanged

InitSummaries ==
  /\ StoreIdle
  /\ \E df \in NewsFrames :
       job = [kind |-> "summarize_news", at |-> "start", df |-> df,
              reply |-> [s \in Symbols |-> "text"], results |-> <<>>]
NextSummaries == Summarize
SpecSummaries == InitSummaries /\ [][NextSummaries]_vars

\* ------------------------------------------------------------- two writers
\* two job runs call insert_or_update on the same table at once, each on a
\* connection of its own (autocommit off, InnoDB row locks): a statement is
\* one step, a statement that would wait for the other's lock is not enabled
Writers == {1, 2}
Other(i) == 3 - i
WriterStart(df) ==
  [at |-> "start", df |-> df, locked |-> {}, seen |-> {}, failed |-> FALSE]
DfKeysOf(df) == {Key(Stored(df[j]), table_pk) : j \in 1..Len(df)}

\* variant: no commit between the INSERT and the DELETE, so the DELETE ranks
\* the rows as the writer's transaction saw them at its INSERT
trim_reads_own(seen, now) == seen

\* the rows the retention DELETE ranks: insert_or_update committed the
\* INSERT, so the DELETE opens a new transaction and reads the committed rows
trim_reads(seen, now) == now

\* self.create_table_if_not_exists(df)
WCreate(i) ==
  /\ job.w[i].at = "start"
  /\ Store(create_table_if_not_exists(Db, DOMAIN job.w[i].df[1], primary_keys))
  /\ job' = [job EXCEPT !.w[i].at = "created"]
  /\ UNCHANGED <<connection, primary_keys, max_row_key, sort_col, sql_mode, pc, last>>

\* cursor.executemany(insert_query, ...): the rows are locked and pending
\* until the commit; except Error leaves nothing pending
WInsert(i) ==
  /\ job.w[i].at = "created"
  /\ DfKeysOf(job.w[i].df) \cap job.w[Other(i)].locked = {}
  /\ \E rejected \in BOOLEAN :
       job' = IF rejected
              THEN [job EXCEPT !.w[i].at = "inserted", !.w[i].seen = committed]
              ELSE [job EXCEPT !.w[i].at = "pending",
                               !.w[i].locked = DfKeysOf(job.w[i].df),
                               !.w[i].seen = executemany(committed, job.w[i].df,
                                                         table_pk, primary_keys, FALSE)]
  /\ UNCHANGED <<connection, primary_keys, max_row_key, sort_col, sql_mode,
                 table_exists, table_pk, table_cols, committed, session, pc, last>>

\* self.connection.commit() after the INSERT
WCommit(i) ==
  /\ job.w[i].at = "pending"
  /\ committed' = executemany(committed, job.w[i].df, table_pk, primary_keys, FALSE)
  /\ session' = committed'
  /\ job' = [job EXCEPT !.w[i].at = "inserted", !.w[i].locked = {}]
  /\ UNCHANGED <<connection, primary_keys, max_row_key, sort_col, sql_mode,
                 table_exists, table_pk, table_cols, pc, last>>

\* self._enforce_max_rows(): the DELETE and its commit, or except Error
WDelete(i) ==
  /\ job.w[i].at = "inserted"
  /\ \E failed \in BOOLEAN :
       IF failed
       THEN /\ job' = [job EXCEPT !.w[i].at = "done", !.w[i].failed = TRUE]
            /\ UNCHANGED <<committed, session>>
       ELSE \E over \in ranked_over(trim_reads(job.w[i].seen, committed),
                                     sort_col, max_row_key[1]) :
              /\ \A t \in over : Key(t, table_pk) \notin job.w[Other(i)].locked
              /\ committed' = delete_query(committed, over, primary_keys)
              /\ session' = committed'
              /\ job' = [job EXCEPT !.w[i].at = "done"]
  /\ UNCHANGED <<connection, primary_keys, max_row_key, sort_col, sql_mode,
                 table_exists, table_pk, table_cols, pc, last>>

WriterCreate == \E i \in Writers : WCreate(i)
WriterInsert == \E i \in Writers : WInsert(i)
WriterCommit == \E i \in Writers : WCommit(i)
WriterDelete == \E i \in Writers : WDelete(i)

InitWriters ==
  /\ connection = "open"
  /\ primary_keys \in PrimaryKeyChoices
  /\ max_row_key \in {Some(n) : n \in 1..MaxCap}
  /\ sort_col \in {"Timestamp", "Close"}
  /\ sql_mode = "strict"
  /\ table_exists \in BOOLEAN
  /\ table_pk = IF table_exists THEN primary_keys ELSE <<>>
  /\ table_cols = IF table_exists THEN ColumnSet(Columns) ELSE {}
  /\ committed \in IF table_exists
                   THEN SchemaTables(ColumnSet(Columns), primary_keys) ELSE {{}}
  /\ session = committed
  /\ pc = "constructed"
  /\ job \in {[kind |-> "writers", w |-> <<WriterStart(a), WriterStart(b)>>]
               : a, b \in Frames(1)}
  /\ last = [op |-> "none", df |-> <<>>, rows |-> <<>>, stmts |-> <<>>,
             insert |-> "none",
             trim |-> "none", before |-> committed, inserted |-> committed,
             prev |-> <<>>, fault |-> FALSE]
NextWriters == WriterCreate \/ WriterInsert \/ WriterCommit \/ WriterDelete
SpecWriters == InitWriters /\ [][NextWriters]_vars

\* ------------------------------------------------------------- observation
\* the last call was insert_or_update on a connected store with rows to insert
Inserting == last.insert # "none"
Accepted  == last.insert = "done"
Rejected  == last.insert = "raised"
\* the last call ran the retention DELETE and the driver did not raise
Trimmed   == last.trim = "done"

Cap == max_row_key[1]

\* the key of the i-th row of the last DataFrame, as the table holds it
DfKey(i) == Key(last.rows[i], primary_keys)
\* no later row of the DataFrame has the key of row i
LastOfKey(i) == \A j \in (i+1)..Len(last.df) : DfKey(j) # DfKey(i)
\* the DataFrame holds two rows with one primary-key tuple
Collides == \E i, j \in 1..Len(last.df) : i < j /\ DfKey(i) = DfKey(j)
RowsOfKey(rows, k) == {t \in rows : Key(t, primary_keys) = k}

\* ------------------------------------------------------------- claims

\* C1: with a non-empty primary key and a table created by this store, no two
\* rows of the table share a primary-key tuple, whatever calls were made.
C1_PrimaryKeyUnique ==
  (Len(primary_keys) > 0 /\ (table_exists => table_pk = primary_keys))
    => KeyUnique(committed, primary_keys)

\* C1 witness: an accepted batch with an internal key collision, one of whose
\* keys was in the table before, has been written.
C1_Witness ==
  /\ Accepted /\ Collides
  /\ \E i \in 1..Len(last.df) : RowsOfKey(last.before, DfKey(i)) # {}
  /\ Cardinality(committed) >= 2

CapHolds(rows) == \A s \in Symbols : Cardinality(Partition(rows, s)) <= Cap

Ties(rows) ==
  \E a, b \in rows : a # b /\ a.Symbol = b.Symbol /\ a[sort_col] = b[sort_col]

TopN(P, col, n) ==
  {t \in P : Cardinality({u \in P : StrLess(t[col], u[col])}) < n}

Distinct(P, col) == \A a, b \in P : a # b => a[col] # b[col]

\* C3: after a retention trim, a partition that held more than max_row_key
\* rows of pairwise distinct sort values holds exactly the max_row_key rows
\* with the greatest sort values; a partition within the cap keeps all rows.
C3_TopNRetained ==
  (Trimmed /\ Len(primary_keys) > 0 /\ table_pk = primary_keys)
    => \A s \in Symbols :
         LET P == Partition(last.inserted, s)
         IN  Distinct(P, sort_col) =>
               Partition(committed, s) =
                 IF Cardinality(P) > Cap THEN TopN(P, sort_col, Cap) ELSE P

\* C3 witness: a trim cut a partition of distinct sort values down to the cap
\* while another partition within the cap kept its rows.
C3_Witness ==
  /\ Trimmed
  /\ \E s \in Symbols :
       /\ Distinct(Partition(last.inserted, s), sort_col)
       /\ Cardinality(Partition(last.inserted, s)) > Cap
       /\ Cardinality(Partition(committed, s)) = Cap
  /\ \E s \in Symbols :
       /\ Partition(last.inserted, s) # {}
       /\ Cardinality(Partition(last.inserted, s)) <= Cap

\* the rows of row d's own partition that rank at or above d
AtOrAbove(rows, d) ==
  {u \in Partition(rows, d.Symbol) : u # d /\ ~StrLess(u[sort_col], d[sort_col])}

\* C4: with primary key (Symbol, Timestamp) the trim deletes a row only if its
\* own rank within its own Symbol partition exceeds the cap; rows of another
\* partition, also ones with the same Timestamp, are not touched.
C4_DeleteOwnRankOnly ==
  (Trimmed /\ primary_keys = <<"Symbol", "Timestamp">> /\ table_pk = primary_keys)
    => /\ committed \subseteq last.inserted
       /\ \A d \in last.inserted \ committed :
            Cardinality(AtOrAbove(last.inserted, d)) >= Cap
       /\ \A s \in Symbols :
            Cardinality(Partition(last.inserted, s)) <= Cap
              => Partition(committed, s) = Partition(last.inserted, s)

\* C4 witness: the trim deleted a row of one partition while another partition
\* kept a row with the same Timestamp.
C4_Witness ==
  /\ Trimmed /\ primary_keys = <<"Symbol", "Timestamp">>
  /\ \E d \in last.inserted \ committed : \E k \in committed :
       k.Symbol # d.Symbol /\ k.Timestamp = d.Timestamp

\* row i of the last DataFrame met a row with its key and other values
Overwrites(i) ==
  /\ last.rows[i] \notin last.before
  /\ \E t \in last.before : Key(t, primary_keys) = DfKey(i)

\* C5 as stated: an accepted insert_or_update with a row whose key is in the
\* table with other non-key values leaves exactly one row for that key, every
\* column holding the incoming value.
C5_OverwriteLeavesRow ==
  (Accepted /\ Len(primary_keys) > 0)
    => \A i \in 1..Len(last.df) :
         (Overwrites(i) /\ LastOfKey(i))
           => RowsOfKey(committed, DfKey(i)) = {last.rows[i]}

\* C5 amended: such a call leaves at most one row for that key, and a row that
\* is there holds the incoming values and none of the old ones; the row is
\* there unless the retention trim of the same call deleted it.
C5_OverwriteOrTrimmed ==
  (Accepted /\ Len(primary_keys) > 0)
    => \A i \in 1..Len(last.df) :
         (Overwrites(i) /\ LastOfKey(i))
           => /\ RowsOfKey(committed, DfKey(i)) \subseteq {last.rows[i]}
              /\ RowsOfKey(last.inserted, DfKey(i)) = {last.rows[i]}
              /\ ~Trimmed => RowsOfKey(committed, DfKey(i)) = {last.rows[i]}

\* C5 witness: a row overwrote the stored row of its key and is in the table.
C5_Witness ==
  /\ Accepted
  /\ \E i \in 1..Len(last.df) :
       /\ Overwrites(i) /\ LastOfKey(i)
       /\ last.rows[i] \in committed
       /\ \E t \in RowsOfKey(last.before, DfKey(i)) : t.Close # last.rows[i].Close

\* the row the table must hold for the key of row i once the batch is applied
Applied(rows, i) == RowsOfKey(rows, DfKey(i)) = {last.rows[i]}

\* C6: a batch the driver rejects adds and overwrites no row of the committed
\* table, also after the retention step that follows; a batch it accepts is
\* applied whole.
C6_BatchAtomic ==
  (Inserting /\ Len(primary_keys) > 0)
    => /\ Rejected => (committed \subseteq last.before /\ last.inserted = last.before)
       /\ Accepted =>
            /\ \A i \in 1..Len(last.df) : LastOfKey(i) => Applied(last.inserted, i)
            /\ committed \subseteq last.inserted
            /\ ~Trimmed => committed = last.inserted

\* C6 witness: a two-row batch with a new key was rejected on a store with a
\* retention policy, and the retention DELETE ran and committed after it.
C6_Witness ==
  /\ Rejected /\ Trimmed /\ Len(last.df) = 2
  /\ RowsOfKey(last.before, DfKey(1)) = {}
  /\ last.before # {}
  /\ committed = last.before

\* C7 as stated: after an accepted batch holding two or more rows of one key
\* the table holds one row for that key, with the values of the last of them.
C7_LastWinsRowPresent ==
  (Accepted /\ Len(primary_keys) > 0)
    => \A j \in 1..Len(last.df) :
         (LastOfKey(j) /\ \E i \in 1..(j-1) : DfKey(i) = DfKey(j))
           => RowsOfKey(committed, DfKey(j)) = {last.rows[j]}

\* C7 amended: the insert step leaves one row for that key, with the values of
\* the last row of the key in batch order; after the call the table holds that
\* row or, when the retention trim of the call deleted it, no row of that key.
C7_LastWins ==
  (Accepted /\ Len(primary_keys) > 0)
    => \A j \in 1..Len(last.df) :
         (LastOfKey(j) /\ \E i \in 1..(j-1) : DfKey(i) = DfKey(j))
           => /\ RowsOfKey(last.inserted, DfKey(j)) = {last.rows[j]}
              /\ RowsOfKey(committed, DfKey(j)) \subseteq {last.rows[j]}
              /\ ~Trimmed => RowsOfKey(committed, DfKey(j)) = {last.rows[j]}

\* C7 witness: two rows of one key with different values were written and the
\* later one is in the table.
C7_Witness ==
  /\ Accepted /\ Collides
  /\ \E i, j \in 1..Len(last.df) :
       /\ i < j /\ DfKey(i) = DfKey(j) /\ last.df[i] # last.df[j]
       /\ last.rows[j] \in committed

\* the previous call issued no statement the driver rejected
PrevClean ==
  /\ \E i \in 1..Len(last.prev) : last.prev[i] = "INSERT"
  /\ \A i \in 1..Len(last.prev) : last.prev[i] # "DELETE raised"
Clean == Accepted /\ last.trim # "raised"

\* C8 as stated: the second of two accepted calls with the same row leaves
\* the table as the first left it, with exactly one row for the key.
C8_TwiceAsOnce ==
  (pc = "repeated" /\ PrevClean /\ Clean /\ Len(primary_keys) > 0)
    => /\ committed = last.before
       /\ Applied(committed, 1)

\* C8 amended: the key never has two rows, and when the row is in the table
\* after the first call (it always is without a retention policy) the second
\* call changes nothing and the key has exactly one row with the same values.
C8_TwiceAsOnceIfKept ==
  (pc = "repeated" /\ PrevClean /\ Clean /\ Len(primary_keys) > 0)
    => /\ ~PolicySet => last.rows[1] \in last.before
       /\ RowsOfKey(committed, DfKey(1)) \subseteq {last.rows[1]}
       /\ last.rows[1] \in last.before
            => (committed = last.before /\ Applied(committed, 1))

\* C8 witness: the same row was inserted twice and the table holds it once,
\* next to another row.
C8_Witness ==
  /\ pc = "repeated" /\ PrevClean /\ Clean
  /\ Applied(committed, 1)
  /\ Cardinality(committed) >= 2

Keys(rows) == {Key(t, primary_keys) : t \in rows}
DfKeys == {DfKey(i) : i \in 1..Len(last.df)}

\* C9: without a retention policy an accepted call destroys no row: the keys
\* of the table are the keys it held together with the keys of the batch,
\* rows of other keys are unchanged, and each key of the batch carries the
\* values of its last row in the batch.
C9_NoPolicyKeepsRows ==
  (Accepted /\ ~PolicySet /\ Len(primary_keys) > 0)
    => /\ Keys(committed) = Keys(last.before) \cup DfKeys
       /\ \A t \in last.before : Key(t, primary_keys) \notin DfKeys => t \in committed
       /\ \A i \in 1..Len(last.df) : LastOfKey(i) => Applied(committed, i)

\* C9 witness: a call overwrote one row and left another key's row alone.
C9_Witness ==
  /\ Accepted /\ ~PolicySet
  /\ \E i \in 1..Len(last.df) : Overwrites(i)
  /\ \E t \in last.before : Key(t, primary_keys) \notin DfKeys /\ t \in committed

\* position of the first statement of the last call that is one of xs (0: none)
Pos(xs) ==
  IF \E i \in 1..Len(last.stmts) : last.stmts[i] \in xs
  THEN CHOOSE i \in 1..Len(last.stmts) :
         /\ last.stmts[i] \in xs
         /\ \A j \in 1..(i-1) : last.stmts[j] \notin xs
  ELSE 0
Count(xs) == Cardinality({i \in 1..Len(last.stmts) : last.stmts[i] \in xs})

\* C10: with a retention policy every insert_or_update call with a non-empty
\* batch on a connected store issues the retention DELETE exactly once, after
\* the insert step and as the last statement of the call, and the DELETE
\* ranks the rows that call wrote.
C10_TrimFollowsInsert ==
  (last.op = "insert_or_update" /\ connection # None /\ Len(last.df) > 0
     /\ Truthy(max_row_key) /\ sort_col # None /\ Len(primary_keys) > 0)
    => /\ Count({"DELETE", "DELETE raised"}) = 1
       /\ Count({"INSERT", "INSERT raised"}) = 1
       /\ Pos({"INSERT", "INSERT raised"}) < Pos({"DELETE", "DELETE raised"})
       /\ \A i \in 1..Len(last.stmts) :
            (i > Pos({"DELETE", "DELETE raised"})) => last.stmts[i] = "COMMIT"
       /\ (Accepted /\ Trimmed) =>
            /\ \A i \in 1..Len(last.df) : LastOfKey(i) => Applied(last.inserted, i)
            /\ committed \in {delete_query(last.inserted, over, primary_keys)
                               : over \in ranked_over(last.inserted, sort_col, Cap)}
            /\ CapHolds(committed)

\* C10 witness: the DELETE of a call removed a row that the same call wrote.
C10_Witness ==
  /\ Accepted /\ Trimmed /\ PolicySet
  /\ \E i \in 1..Len(last.df) :
       /\ RowsOfKey(last.before, DfKey(i)) = {}
       /\ last.rows[i] \in last.inserted
       /\ last.rows[i] \notin committed

\* C11: a connector constructed with primary_keys omitted is append-only:
\* after insert_or_update with rows, no driver fault, the table exists
\* without a PRIMARY KEY, every row of the batch was inserted as a plain
\* insert and no row the table held was updated or trimmed.
\* It does not hold: [None] is truthy, the CREATE names PRIMARY KEY (`None`)
\* and is rejected, and the INSERT carries ON DUPLICATE KEY UPDATE.
C11_AppendOnly ==
  (/\ primary_keys = NoKeys /\ connection # None
   /\ last.op = "insert_or_update" /\ Len(last.df) > 0 /\ ~last.fault)
  => /\ table_exists /\ table_pk = <<>>
     /\ Accepted
     /\ last.before \subseteq committed
     /\ \A i \in 1..Len(last.rows) : last.rows[i] \in committed

\* the call that shows it: the table was missing and is still missing
C11_Witness ==
  /\ primary_keys = NoKeys /\ connection # None
  /\ last.op = "insert_or_update" /\ Len(last.df) > 0 /\ ~last.fault
  /\ ~table_exists /\ Rejected

\* C12: insert_or_update with a batch of zero rows issues no statement and
\* leaves the store as it was: no table created, no row inserted, updated or
\* deleted, no retention trim; the call returns (it has an outcome).
C12_EmptyBatchNoOp ==
  [][(last'.op = "insert_or_update" /\ Len(last'.df) = 0 /\ pc = "constructed")
       => /\ last'.stmts = <<>>
          /\ last'.trim = "none" /\ last'.insert = "none"
          /\ UNCHANGED <<table_exists, table_pk, table_cols, committed, session>>]_vars

\* an empty batch met a connected store with a policy whose table holds more
\* rows of a Symbol than the cap
C12_Witness ==
  /\ last.op = "insert_or_update" /\ Len(last.df) = 0 /\ pc = "called"
  /\ connection # None /\ PolicySet
  /\ \E r \in committed : Cardinality({t \in committed : t.Symbol = r.Symbol}) > Cap

\* C13: with max_row_key or sort_col left unset, no call of insert_or_update
\* or _enforce_max_rows deletes a row: no DELETE takes effect and every
\* primary-key tuple the table held before the call is still in it, however
\* many rows a Symbol has.
C13_NoPolicyNoDelete ==
  ~PolicySet =>
    /\ ~Trimmed
    /\ \A r \in last.before :
         \E t \in committed : Key(t, table_pk) = Key(r, table_pk)

\* _enforce_max_rows called with sort_col set and max_row_key unset on a
\* table where a Symbol has two rows: the DELETE was issued and raised
C13_Witness ==
  /\ ~PolicySet /\ connection # None /\ ~last.fault
  /\ last.op = "_enforce_max_rows" /\ sort_col # None /\ last.trim = "raised"
  /\ \E r, t \in last.before : r # t /\ r.Symbol = t.Symbol

\* C14: once the table exists, no create_table_if_not_exists and no
\* insert_or_update call changes its column set or its primary key, whatever
\* columns the DataFrame carries; a column the table lacks is not added.
C14_NeverMigrates ==
  [][table_exists => UNCHANGED <<table_exists, table_cols, table_pk>>]_vars

\* a DataFrame with a Summary met a table without that column, created with
\* another key than the connector's; so did a direct create
C14_Witness ==
  /\ table_exists /\ "Summary" \notin table_cols /\ table_pk # primary_keys
  /\ last.before # {}
  /\ \/ last.op = "insert_or_update" /\ Len(last.df) > 0
        /\ "Summary" \in DOMAIN last.df[1]
     \/ last.op = "create_table_if_not_exists"

\* C15: a row with a value of any length, longer than 255 characters too, is
\* accepted by insert_or_update into a table this store created and is
\* stored with the value intact (a DataFrame of one row, no policy to trim
\* it, no driver fault).
\* It does not hold: the columns are VARCHAR(255).
C15_LongValueIntact ==
  (/\ last.op = "insert_or_update" /\ Len(last.df) = 1 /\ ~last.fault
   /\ ~PolicySet /\ table_exists /\ table_pk = primary_keys
   /\ DOMAIN last.df[1] \subseteq table_cols)
  => /\ Accepted
     /\ \A i \in 1..Len(last.rows) :
          \E t \in committed :
            \A c \in DOMAIN last.rows[i] : t[c] = last.rows[i][c]

\* a Summary of 256 characters was sent to a table with a Summary column:
\* the INSERT was rejected, or the row stored holds 255 characters
C15_Witness ==
  /\ last.op = "insert_or_update" /\ Len(last.df) > 0 /\ ~last.fault
  /\ "Summary" \in table_cols /\ table_pk = primary_keys /\ TooLong(last.df[1])
  /\ \/ sql_mode = "strict" /\ Rejected
     \/ sql_mode = "loose" /\ Accepted
        /\ \E t \in committed : t.Summary = VarcharLimit
                                /\ t.Timestamp = last.rows[1].Timestamp

\* C16: on a connector whose connection is None, create_table_if_not_exists,
\* insert_or_update, _enforce_max_rows and close_connection each return
\* having issued no statement and changed nothing: the table, its rows and
\* the connection are as before.
C16_DisconnectedInert ==
  [][connection = None
       => /\ last'.stmts = <<>>
          /\ UNCHANGED <<connection, table_exists, table_pk, table_cols,
                         committed, session>>]_vars

\* create_table_if_not_exists was called without a connection while the
\* table was missing
C16_Witness ==
  /\ connection = None /\ last.op = "create_table_if_not_exists"
  /\ ~table_exists /\ pc = "called"

\* C18: read_table never raises and never changes the table; without a
\* connection, or when the query fails (the table does not exist yet), it
\* returns a table of no rows.
\* It does not hold: the failure of the SELECT leaves read_table as an
\* exception.
C18_ReadFailsSoft ==
  last.op = "read_table"
  => /\ ~last.raised
     /\ committed = last.before /\ session = last.inserted
     /\ (connection = None \/ ~table_exists \/ last.fault)
          => last.result.rows = {}

\* read_table on a connected store whose table does not exist
C18_Witness ==
  /\ last.op = "read_table" /\ connection = "open" /\ ~last.fault
  /\ ~table_exists /\ last.raised

\* C17: in the investing-news job, when the MySQL connection cannot be
\* established the job does not go on to print that the data was inserted
\* successfully.
\* It does not hold: the script prints it after every non-empty scrape.
C17_NoSuccessWhenUnavailable ==
  (/\ job.kind = "investing_news" /\ "connector" \in job.bound
   /\ connection = None)
  => Inserted \notin job.printed

\* the run that shows it: the connection was None, no statement was issued,
\* and the script ended having printed the success line
C17_Witness ==
  /\ At("investing_news", "done") /\ "connector" \in job.bound
  /\ connection = None /\ last.stmts = <<>>
  /\ Inserted \in job.printed

\* C19: every connection a job opened is closed when the job ends, on every
\* path: the path without source data and the error paths too, and for each
\* of the three connectors of the news-summary job.
\* It does not hold: connector_yf and connector_inv are never closed.
C19_ConnectionsReleased ==
  job.at = "done" => job.open = {}

\* the news-summary job ended on its normal path, the data stored and the
\* output connector closed, with both source connections still open
C19_Witness ==
  /\ At("news_summary", "done") /\ Inserted \in job.printed
  /\ Unexpected \notin job.printed
  /\ job.open = {"connector_yf", "connector_inv"}
  /\ last.op = "close_connection"

\* C20: in process_all_symbols a failure while fetching, saving or uploading
\* the data of one symbol is skipped and the loop goes on: when the method
\* is left, every symbol of the configuration has been processed.
\* It does not hold: only fetch_data catches; an exception of save_to_csv or
\* upload_to_google_sheets leaves the loop.
C20_SkipAndContinue ==
  (job.kind = "yfinance" /\ job.at \in {"done", "raised"})
  => job.fetched = 1..job.n

\* the upload of the first symbol's minute data raised and the symbols after
\* it were never fetched
C20_Witness ==
  /\ At("yfinance", "raised") /\ job.i = 1 /\ job.n > 1
  /\ job.fetched = {1} /\ job.uploaded = {}

\* C30: _enforce_max_rows run a second time straight after a run whose
\* DELETE was executed and committed deletes no row: the table after two
\* runs is the table after one.
C30_TrimIdempotent ==
  (/\ pc = "repeated" /\ last.op = "_enforce_max_rows"
   /\ last.prev = <<"DELETE", "COMMIT">>)
  => committed = last.before /\ session = last.before

\* the first run cut rows and the second run's DELETE was executed too
C30_Witness ==
  /\ pc = "repeated" /\ last.op = "_enforce_max_rows"
  /\ last.prev = <<"DELETE", "COMMIT">> /\ Trimmed
  /\ Cardinality(last.first) > Cardinality(last.before)

\* C28: the retention trim orders sort_col by string comparison: of two rows
\* of one Symbol with the sort values '9' and '10', a trim to one row keeps
\* the row with '9' and deletes the row with '10'.
C28_TextOrder ==
  (Trimmed /\ sort_col = "Close" /\ Cap = 1)
  => \A a, b \in last.inserted :
       (a.Symbol = b.Symbol /\ a.Close = Digits(9) /\ b.Close = Digits(10))
       => a \in committed /\ b \notin committed

\* a trim by Close met a Symbol holding '9' and '10'
C28_Witness ==
  /\ Trimmed /\ sort_col = "Close" /\ Cap = 1
  /\ \E a, b \in last.inserted :
       /\ a.Symbol = b.Symbol /\ a.Close = Digits(9) /\ b.Close = Digits(10)
       /\ a \in committed /\ b \notin committed

\* C29: with a primary key that does not contain Symbol, an accepted insert
\* of a row whose key is in the table under another Symbol overwrites that
\* row's Symbol: the row leaves the earlier Symbol's partition and the key is
\* never held under two symbols.
C29_UpsertMovesPartition ==
  (Accepted /\ primary_keys = <<"Timestamp">> /\ table_pk = primary_keys)
  => \A i \in 1..Len(last.rows) :
       LastOfKey(i) =>
         \A old \in last.before :
           (old.Timestamp = last.rows[i].Timestamp
              /\ old.Symbol # last.rows[i].Symbol)
           => /\ RowsOfKey(last.inserted, DfKey(i)) = {last.rows[i]}
              /\ old \notin committed
              /\ \A t \in committed :
                   t.Timestamp = old.Timestamp => t.Symbol = last.rows[i].Symbol

\* a row arrived whose key was in the table under the other Symbol, and the
\* table holds it under the new one
C29_Witness ==
  /\ Accepted /\ primary_keys = <<"Timestamp">> /\ table_pk = primary_keys
  /\ \E i \in 1..Len(last.rows) : \E old \in last.before :
       /\ LastOfKey(i)
       /\ old.Timestamp = last.rows[i].Timestamp
       /\ old.Symbol # last.rows[i].Symbol
       /\ last.rows[i] \in committed

\* both insert_or_update calls have returned
BothReturned == job.kind = "writers" /\ \A i \in Writers : job.w[i].at = "done"

Uploaded == job.kind = "sheets" /\ job.op = "upload_to_sheets"

\* C22: after upload_to_sheets returned without an exception the worksheet
\* exists and its cells are exactly the cells of the CSV: no cell of the old
\* contents is left, also when they had more rows or columns.
C22_UploadReplaces ==
  (Uploaded /\ ~job.raised)
  => /\ job.book[job.name].made
     /\ job.book[job.name].values = Cells(job.file.h, job.file.w, "csv")

\* a CSV of one line and one column replaced contents of two by two
C22_Witness ==
  /\ Uploaded /\ ~job.raised
  /\ job.file.h = 1 /\ job.file.w = 1
  /\ job.before[job.name].values = Cells(2, 2, "old")

\* C26: when the CSV is missing, empty or unparsable upload_to_sheets raises
\* and the spreadsheet is as before: the worksheet is not cleared and not
\* created.
C26_ReadBeforeClear ==
  (Uploaded /\ job.file.kind # "table")
  => job.raised /\ job.book = job.before

\* an upload of a bad CSV aimed at a worksheet with contents, and one aimed
\* at a title that does not exist
C26_Witness ==
  /\ Uploaded /\ job.file.kind = "empty" /\ job.found /\ job.raised
  /\ job.before[job.name].values # {}
  /\ \E t \in Titles : ~job.before[t].made

\* C27: get_sheet_as_dataframe for a title the spreadsheet lacks adds an
\* empty worksheet of that title and returns its contents, no values; for a
\* worksheet that exists it changes nothing and returns its values.
C27_ReadCreates ==
  (job.kind = "sheets" /\ job.op = "get_sheet_as_dataframe" /\ job.found)
  => /\ ~job.raised
     /\ \A t \in Titles \ {job.name} : job.book[t] = job.before[t]
     /\ IF job.before[job.name].made
        THEN job.book = job.before /\ job.df = job.before[job.name].values
        ELSE /\ job.book[job.name] = [rows |-> NewRows, cols |-> NewCols,
                                      values |-> {}, made |-> TRUE]
             /\ job.df = {}

\* a read of a title the spreadsheet did not have
C27_Witness ==
  /\ job.kind = "sheets" /\ job.op = "get_sheet_as_dataframe" /\ job.found
  /\ ~job.before[job.name].made /\ job.book[job.name].made
  /\ \E t \in Titles : job.before[t].values # {}

NewsSaved == At("yfinance_news", "done") /\ job.saved
RowsOfSymbol(df, symbol) == Cardinality({r \in df : r.Symbol = symbol})

\* C21: the result the yfinance news job saves and uploads holds at most 10
\* rows for each value of its Symbol column, also when the configured name
\* differs from the ticker.
C21_LatestTen ==
  NewsSaved => \A r \in job.csv : RowsOfSymbol(job.csv, r.Symbol) <= HeadRows

\* ten rows in the sheet under the name, ten fetched under another ticker,
\* and the result holds more than ten rows of the one Symbol
C21_Witness ==
  /\ NewsSaved /\ job.config.name # job.config.ticker
  /\ Cardinality(job.old_news_df) = HeadRows
  /\ Cardinality(job.news_df) = TopNews
  /\ RowsOfSymbol(job.csv, job.config.name) > HeadRows

\* with a name equal to its ticker the saved result keeps to ten rows
LatestTenSameName ==
  (NewsSaved /\ job.config.name = job.config.ticker)
  => \A r \in job.csv : RowsOfSymbol(job.csv, r.Symbol) <= HeadRows

\* a number followed by one suffix K, M or B, and the power of ten it names
Suffixed(text) ==
  /\ Len(text) >= 2
  /\ text[Len(text)] \in {"K", "M", "B"}
  /\ IsFloat(SubSeq(text, 1, Len(text) - 1))
Scale(text) ==
  IF text[Len(text)] = "K" THEN 3 ELSE IF text[Len(text)] = "M" THEN 6 ELSE 9

\* C24: a Market cap cell whose text is a number with suffix K, M or B is
\* saved as that number times 1000, 1000000 or 1000000000, the same value a
\* Volume cell of that text is saved as.
C24_MarketCapScaled ==
  (At("overview", "saved") /\ Suffixed(job.cell))
  => /\ job.MarketCap = Times(float(SubSeq(job.cell, 1, Len(job.cell) - 1)), Scale(job.cell))
     /\ job.MarketCap = job.Volume

\* the cell '3M': Volume is saved as 3000000, Market cap as NaN
C24_Witness ==
  /\ At("overview", "saved") /\ job.cell = <<"3", "M">>
  /\ job.Volume = Num(3, 6)
  /\ job.MarketCap = NaN

\* every Volume cell with a suffix is scaled as described
VolumeScaled ==
  (At("overview", "saved") /\ Suffixed(job.cell))
  => job.Volume = Times(float(SubSeq(job.cell, 1, Len(job.cell) - 1)), Scale(job.cell))

\* no Market cap cell is saved as a number
MarketCapLost == At("overview", "saved") => job.MarketCap = NaN

\* the rows of one symbol whose Datetime parses
Dated(df, symbol) == {r \in df : r.Symbol = symbol /\ to_datetime(r.Datetime) # NaT}
ResultsOf(symbol) == {i \in 1..Len(job.results) : job.results[i].Symbol = symbol}

\* C23: summarize_news returns exactly one row for each Symbol that has an
\* input row with a parseable Datetime and none for any other; the row's
\* Last Updated is the largest Datetime of the symbol's rows; whatever the
\* summarizer does and whether or not there is summary text; an empty input
\* gives no rows.
C23_OneRowPerSymbol ==
  At("summarize_news", "returned")
  => /\ \A s \in Symbols :
          IF Dated(job.df, s) = {} THEN ResultsOf(s) = {}
          ELSE /\ Cardinality(ResultsOf(s)) = 1
               /\ \A i \in ResultsOf(s) :
                    /\ \E r \in Dated(job.df, s) :
                         job.results[i].Last_Updated = to_datetime(r.Datetime)
                    /\ \A r \in Dated(job.df, s) :
                         to_datetime(r.Datetime) <= job.results[i].Last_Updated
     /\ job.df = {} => job.results = <<>>

\* A has two dated rows and the summarizer raises for it, B has a dated row
\* without summary text and a row whose Datetime is no date
C23_Witness ==
  /\ At("summarize_news", "returned")
  /\ Cardinality(Dated(job.df, "A")) = 2 /\ job.reply["A"] = "raise"
  /\ \E r \in job.df : r.Symbol = "A" /\ r.Summary = "rates rise"
  /\ Cardinality(Dated(job.df, "B")) = 1
  /\ \A r \in job.df : r.Symbol = "B" => r.Summary \in {None, ""}
  /\ \E r \in job.df : r.Symbol = "B" /\ to_datetime(r.Datetime) = NaT
  /\ Len(job.results) = 2

====
